---- MODULE Spec2Model ----
(***************************************************************************)
(* Model of pkg/knuu/instance_helper.go: the per-instance helpers that     *)
(* deploy, patch and destroy the Service, the StatefulSet and the          *)
(* PersistentVolumeClaim of a knuu Instance, clone an Instance, resolve    *)
(* its image and validate ports.                                           *)
(*                                                                         *)
(* Strings are sequences of tokens, so that "+" is \o.  Go slices are      *)
(* headers [arr, len] into a heap of backing arrays, Go maps are pointers  *)
(* into a heap of map objects: copying a header or a pointer shares the    *)
(* storage, as in Go.  The cluster (package k8s) is three tables keyed by  *)
(* resource name; every client call takes a fault flag as an input.        *)
(***************************************************************************)
EXTENDS Integers, Sequences, FiniteSets, TLC

VARIABLES
    instances,     \* the *Instance objects allocated so far, by address
    arrays,        \* heap of slice backing arrays
    maps,          \* heap of Go map objects
    services,      \* cluster: Services by name
    statefulSets,  \* cluster: StatefulSets by name
    claims,        \* cluster: PersistentVolumeClaims by name
    nextUuid,      \* number of UUIDs drawn from uuid.NewRandom so far
    history,       \* per instance: the instance it was cloned from (0: none) and
                   \* the image reference its first resolution produced
    last           \* the last helper call: its receiver, result and client requests

vars == <<instances, arrays, maps, services, statefulSets, claims, nextUuid, history, last>>

--------------------------------------------------------------------------
\* Bounds of the model.
MaxInstances == 2
MaxUuids == 3
MaxPorts == 1
MaxVolumes == 2
PortMargin == 50

\* Inputs.
Names == {<<"a">>}
Suffixes == {<<>>, <<"-2">>}
PortInputs == {0, 80}
SizeInputs == {"1Gi", "2Gi", "1024Mi", "x"}
EnvKeys == {"K"}
EnvValues == {"v1", "v2"}
ImageInputs == {<<"img">>}
AccountInputs == {"", "sa"}

\* Process-wide run identifiers, read by getLabels.
identifier == "run-1"
startTime == "t0"

Nil == "nil"
NoService == [absent |-> TRUE, name |-> <<>>, labels |-> <<>>, selector |-> <<>>,
              portsTCP |-> <<>>, portsUDP |-> <<>>]
NoStatefulSet == [absent |-> TRUE, name |-> <<>>, labels |-> <<>>, replicas |-> 0,
                  podConfig |-> <<>>]
EmptyTable == [n \in {} |-> NoService]
Present(table) == DOMAIN table
Remove(table, name) == [n \in DOMAIN table \ {name} |-> table[n]]
NoCall == [op |-> "none", inst |-> 0, err |-> Nil, calls |-> <<>>, found |-> FALSE,
           image |-> <<>>, made |-> 0, arg |-> <<>>]
EmptyMap == [k \in {} |-> ""]
NilSlice == [arr |-> 0, len |-> 0]
NoVolume == [path |-> "", size |-> "", owner |-> 0]

--------------------------------------------------------------------------
\* Go slices and maps.

\* cap(s)
Cap(s) == IF s.arr = 0 THEN 0 ELSE Len(arrays[s.arr])

\* the elements s[0:len(s)]
Elems(s) == IF s.arr = 0 THEN <<>> ELSE SubSeq(arrays[s.arr], 1, s.len)

Pad(n, zero) == [k \in 1..n |-> zero]

\* append(s, x): writes in place when cap(s) > len(s), otherwise moves the
\* elements to a new array of doubled capacity.  Returns the new header and
\* the new heap.
GoAppend(s, x, zero) ==
    IF s.len < Cap(s)
    THEN [slice |-> [arr |-> s.arr, len |-> s.len + 1],
          arrays |-> [arrays EXCEPT ![s.arr][s.len + 1] = x]]
    ELSE LET newcap == IF Cap(s) = 0 THEN 1 ELSE 2 * Cap(s)
             fresh == Elems(s) \o <<x>> \o Pad(newcap - s.len - 1, zero)
         IN [slice |-> [arr |-> Len(arrays) + 1, len |-> s.len + 1],
             arrays |-> Append(arrays, fresh)]

\* the key/value pairs of the map object behind pointer m
MapOf(m) == maps[m]

--------------------------------------------------------------------------
\* uuid.NewRandom and the strings made from it.

\* uuid.String() of the n-th UUID drawn; every draw is a new value
UuidString(n) == ToString(n)
\* uuid.String()[:8]
Uuid8(n) == ToString(n)

generateK8sName(name, uuidErr) ==
    IF uuidErr THEN [name |-> <<>>, err |-> "error generating UUID"]
    ELSE [name |-> name \o <<"-">> \o <<Uuid8(nextUuid + 1)>>, err |-> Nil]

\* getImageRegistry: the instance's imageName when set, else a fresh ttl.sh
\* reference.  The instance is not written.
getImageRegistry(inst, uuidErr) ==
    IF inst.imageName # <<>> THEN [image |-> inst.imageName, err |-> Nil, drew |-> FALSE]
    ELSE IF uuidErr THEN [image |-> <<>>, err |-> "error generating UUID", drew |-> FALSE]
    ELSE [image |-> <<"ttl.sh/", UuidString(nextUuid + 1), ":1h">>, err |-> Nil, drew |-> TRUE]

\* the check as it would be if it began at 0
validatePortFromZero(port) ==
    IF port < 0 \/ port > 65535 THEN "port number is out of range" ELSE Nil

validatePort(port) == IF port < 1 \/ port > 65535 THEN "port number is out of range" ELSE Nil

isTCPPortRegistered(inst, port) == \E k \in 1..inst.portsTCP.len : Elems(inst.portsTCP)[k] = port

isUDPPortRegistered(inst, port) == \E k \in 1..inst.portsUDP.len : Elems(inst.portsUDP)[k] = port

InstanceTypeString(t) == IF t = 0 THEN "BasicInstance" ELSE "Unknown"

getLabels(inst) ==
    ("app" :> inst.k8sName) @@
    ("k8s.kubernetes.io/managed-by" :> <<"knuu">>) @@
    ("test-run-id" :> <<identifier>>) @@
    ("test-started" :> <<startTime>>) @@
    ("name" :> inst.name) @@
    ("k8s-name" :> inst.k8sName) @@
    ("type" :> <<InstanceTypeString(inst.instanceType)>>)

--------------------------------------------------------------------------
\* The cluster client (package k8s).  A request that the cluster serves
\* changes the table; fail = TRUE is a request the client reports as failed.

\* A request as the helper issued it: fault = the client failed for a reason
\* of its own, ok = the client reported success.
Request(call, name, fault, ok, arg) ==
    [call |-> call, name |-> name, fault |-> fault, ok |-> ok, arg |-> arg]

K8sGetService(table, name, fail) ==
    IF fail \/ name \notin Present(table)
    THEN [svc |-> NoService, err |-> "get failed"]
    ELSE [svc |-> table[name], err |-> Nil]

\* create: a Service of that name already in the cluster is a conflict
K8sDeployService(table, name, labels, selector, portsTCP, portsUDP, fail) ==
    IF fail \/ name \in Present(table)
    THEN [svc |-> NoService, err |-> "create failed", table |-> table]
    ELSE LET svc == [absent |-> FALSE, name |-> name, labels |-> labels,
                     selector |-> selector, portsTCP |-> portsTCP, portsUDP |-> portsUDP]
         IN [svc |-> svc, err |-> Nil, table |-> table @@ (name :> svc)]

K8sPatchService(table, name, labels, selector, portsTCP, portsUDP, fail) ==
    IF fail \/ name \notin Present(table)
    THEN [err |-> "patch failed", table |-> table]
    ELSE [err |-> Nil,
          table |-> [table EXCEPT ![name] =
                        [absent |-> FALSE, name |-> name, labels |-> labels,
                         selector |-> selector, portsTCP |-> portsTCP,
                         portsUDP |-> portsUDP]]]

K8sDeleteService(table, name, fail) ==
    IF fail THEN [err |-> "delete failed", table |-> table]
    ELSE [err |-> Nil, table |-> Remove(table, name)]

\* create or replace the StatefulSet named in config
K8sDeployStatefulSet(table, config, init, fail) ==
    IF fail THEN [sts |-> NoStatefulSet, err |-> "deploy failed", table |-> table]
    ELSE LET sts == [absent |-> FALSE, name |-> config.name, labels |-> config.labels,
                     replicas |-> config.replicas, podConfig |-> config.podConfig]
         IN [sts |-> sts, err |-> Nil,
             table |-> [n \in Present(table) \cup {config.name} |->
                           IF n = config.name THEN sts ELSE table[n]]]

K8sDeleteStatefulSetWithGracePeriod(table, name, grace, fail) ==
    IF fail THEN [err |-> "delete failed", table |-> table]
    ELSE [err |-> Nil, table |-> Remove(table, name)]

\* create: nothing is returned; a failed request or a claim of that name
\* already in the cluster leaves the table as it is
K8sDeployPersistentVolumeClaim(table, name, labels, size, fail) ==
    IF fail \/ name \in Present(table) THEN table
    ELSE table @@ (name :> [name |-> name, labels |-> labels, size |-> size])

K8sDeletePersistentVolumeClaim(table, name, fail) ==
    IF fail THEN table ELSE Remove(table, name)

--------------------------------------------------------------------------
\* Bookkeeping shared by the actions.

Running == last.err # "panic"

Call(op, i, err, calls) ==
    [op |-> op, inst |-> i, err |-> err, calls |-> calls, found |-> FALSE,
     image |-> <<>>, made |-> 0, arg |-> <<>>]

Insts == 1..Len(instances)

\* a call of getLabels on instance i: the labels are returned, nothing changes
readLabels(i) ==
    /\ Running
    /\ last' = [Call("getLabels", i, Nil, <<>>) EXCEPT !.arg = getLabels(instances[i])]
    /\ UNCHANGED <<instances, arrays, maps, services, statefulSets, claims, nextUuid, history>>

--------------------------------------------------------------------------
\* Construction and configuration of an Instance (instance.go).

\* NewInstance(name): a fresh cluster name, empty declared state, no handles;
\* taken while fewer than limit instances are allocated
NewInstanceUpTo(name, uuidErr, limit) ==
    LET gen == generateK8sName(name, uuidErr)
        inst == [name |-> name, k8sName |-> gen.name, imageName |-> <<>>,
                 state |-> "None", instanceType |-> 0,
                 kubernetesService |-> NoService,
                 kubernetesStatefulSet |-> NoStatefulSet,
                 builderFactory |-> 1,
                 portsTCP |-> NilSlice, portsUDP |-> NilSlice,
                 command |-> <<>>, args |-> <<>>,
                 env |-> Len(maps) + 1, volumes |-> NilSlice,
                 memoryRequest |-> "", memoryLimit |-> "", cpuRequest |-> "",
                 serviceAccountName |-> ""]
    IN /\ Running
       /\ Len(instances) < limit
       /\ nextUuid < MaxUuids
       /\ IF gen.err # Nil
          THEN /\ last' = Call("NewInstance", 0, gen.err, <<>>)
               /\ UNCHANGED <<instances, maps, history, nextUuid>>
          ELSE /\ instances' = Append(instances, inst)
               /\ maps' = Append(maps, EmptyMap)
               /\ history' = Append(history, [cloneOf |-> 0, image |-> <<>>])
               /\ nextUuid' = nextUuid + 1
               /\ last' = [Call("NewInstance", 0, Nil, <<>>) EXCEPT !.made = Len(instances) + 1]
       /\ UNCHANGED <<arrays, services, statefulSets, claims>>

NewInstance(name, uuidErr) == NewInstanceUpTo(name, uuidErr, MaxInstances)

\* AddPortTCP(port): validatePort, reject a registered port, append
AddPortTCP(i, port) ==
    LET inst == instances[i]
        app == GoAppend(inst.portsTCP, port, 0)
    IN /\ Running
       /\ inst.portsTCP.len < MaxPorts
       /\ IF validatePort(port) # Nil
          THEN /\ last' = Call("AddPortTCP", i, validatePort(port), <<>>)
               /\ UNCHANGED <<instances, arrays>>
          ELSE IF isTCPPortRegistered(inst, port)
          THEN /\ last' = Call("AddPortTCP", i, "TCP port is already registered", <<>>)
               /\ UNCHANGED <<instances, arrays>>
          ELSE /\ instances' = [instances EXCEPT ![i].portsTCP = app.slice]
               /\ arrays' = app.arrays
               /\ last' = Call("AddPortTCP", i, Nil, <<>>)
       /\ UNCHANGED <<maps, services, statefulSets, claims, nextUuid, history>>

\* AddPortUDP(port): validatePort, reject a registered port, append
AddPortUDP(i, port) ==
    LET inst == instances[i]
        app == GoAppend(inst.portsUDP, port, 0)
    IN /\ Running
       /\ inst.portsUDP.len < MaxPorts
       /\ IF validatePort(port) # Nil
          THEN /\ last' = Call("AddPortUDP", i, validatePort(port), <<>>)
               /\ UNCHANGED <<instances, arrays>>
          ELSE IF isUDPPortRegistered(inst, port)
          THEN /\ last' = Call("AddPortUDP", i, "UDP port is already registered", <<>>)
               /\ UNCHANGED <<instances, arrays>>
          ELSE /\ instances' = [instances EXCEPT ![i].portsUDP = app.slice]
               /\ arrays' = app.arrays
               /\ last' = Call("AddPortUDP", i, Nil, <<>>)
       /\ UNCHANGED <<maps, services, statefulSets, claims, nextUuid, history>>

--------------------------------------------------------------------------
\* Service helpers.

\* patchService as it would be if it went on after a failed lookup
patchServiceDoIgnoringLookup(inst, table, fGet, fPatch) ==
    LET cached == ~inst.kubernetesService.absent
        get == K8sGetService(table, inst.k8sName, fGet)
        getReq == IF cached THEN <<>>
                  ELSE <<Request("GetService", inst.k8sName, fGet, get.err = Nil, <<>>)>>
        handle == IF cached THEN inst.kubernetesService ELSE get.svc
        patch == K8sPatchService(table, inst.k8sName, handle.labels, handle.selector,
                                 Elems(inst.portsTCP), Elems(inst.portsUDP), fPatch)
        req == Request("PatchService", inst.k8sName, fPatch, patch.err = Nil,
                       [labels |-> handle.labels, selector |-> handle.selector,
                        portsTCP |-> Elems(inst.portsTCP),
                        portsUDP |-> Elems(inst.portsUDP)])
    IN [inst |-> [inst EXCEPT !.kubernetesService = handle],
        table |-> patch.table,
        err |-> IF patch.err # Nil THEN "error patching service" ELSE Nil,
        calls |-> getReq \o <<req>>]

\* patchService on receiver inst against the Services in table
patchServiceDo(inst, table, fGet, fPatch) ==
    LET cached == ~inst.kubernetesService.absent
        get == K8sGetService(table, inst.k8sName, fGet)
        getReq == IF cached THEN <<>>
                  ELSE <<Request("GetService", inst.k8sName, fGet, get.err = Nil, <<>>)>>
    IN IF ~cached /\ get.err # Nil
       THEN [inst |-> inst, table |-> table, err |-> "error getting service",
             calls |-> getReq]
       ELSE LET handle == IF cached THEN inst.kubernetesService ELSE get.svc
                patch == K8sPatchService(table, inst.k8sName, handle.labels,
                                         handle.selector, Elems(inst.portsTCP),
                                         Elems(inst.portsUDP), fPatch)
                req == Request("PatchService", inst.k8sName, fPatch, patch.err = Nil,
                               [labels |-> handle.labels, selector |-> handle.selector,
                                portsTCP |-> Elems(inst.portsTCP),
                                portsUDP |-> Elems(inst.portsUDP)])
            IN [inst |-> [inst EXCEPT !.kubernetesService = handle],
                table |-> patch.table,
                err |-> IF patch.err # Nil THEN "error patching service" ELSE Nil,
                calls |-> getReq \o <<req>>]

\* deployService as it would be if it created the Service without looking it up
deployServiceDoCreateOnly(inst, f) ==
    LET labels == getLabels(inst)
        portsTCP == Elems(inst.portsTCP)
        portsUDP == Elems(inst.portsUDP)
        create == K8sDeployService(services, inst.k8sName, labels, labels,
                                   portsTCP, portsUDP, f.create)
        req == Request("DeployService", inst.k8sName, f.create, create.err = Nil,
                       [labels |-> labels, selector |-> labels,
                        portsTCP |-> portsTCP, portsUDP |-> portsUDP])
    IN IF create.err # Nil
       THEN [inst |-> inst, table |-> create.table, found |-> FALSE,
             err |-> "error deploying service", calls |-> <<req>>]
       ELSE [inst |-> [inst EXCEPT !.kubernetesService = create.svc],
             table |-> create.table, found |-> FALSE, err |-> Nil, calls |-> <<req>>]

\* deployService on receiver inst
deployServiceDo(inst, f) ==
    LET get == K8sGetService(services, inst.k8sName, f.get)
        found == ~get.svc.absent
        getReq == <<Request("GetService", inst.k8sName, f.get, get.err = Nil, <<>>)>>
        patched == IF found THEN patchServiceDo(inst, services, f.get2, f.patch)
                   ELSE [inst |-> inst, table |-> services, err |-> Nil, calls |-> <<>>]
    IN IF patched.err # Nil
       THEN [inst |-> patched.inst, table |-> patched.table, found |-> found,
             err |-> "error patching service", calls |-> getReq \o patched.calls]
       ELSE LET labels == getLabels(patched.inst)
                selectorMap == getLabels(patched.inst)
                portsTCP == Elems(patched.inst.portsTCP)
                portsUDP == Elems(patched.inst.portsUDP)
                create == K8sDeployService(patched.table, inst.k8sName, labels,
                                           selectorMap, portsTCP, portsUDP, f.create)
                req == Request("DeployService", inst.k8sName, f.create, create.err = Nil,
                               [labels |-> labels, selector |-> selectorMap,
                                portsTCP |-> portsTCP, portsUDP |-> portsUDP])
                calls == getReq \o patched.calls \o <<req>>
            IN IF create.err # Nil
               THEN [inst |-> patched.inst, table |-> create.table, found |-> found,
                     err |-> "error deploying service", calls |-> calls]
               ELSE [inst |-> [patched.inst EXCEPT !.kubernetesService = create.svc],
                     table |-> create.table, found |-> found, err |-> Nil,
                     calls |-> calls]

ServiceFaults == [get : BOOLEAN, get2 : BOOLEAN, patch : BOOLEAN, create : BOOLEAN]

deployService(i, f) ==
    LET r == deployServiceDo(instances[i], f)
    IN /\ Running
       /\ instances' = [instances EXCEPT ![i] = r.inst]
       /\ services' = r.table
       /\ last' = [Call("deployService", i, r.err, r.calls) EXCEPT !.found = r.found]
       /\ UNCHANGED <<arrays, maps, statefulSets, claims, nextUuid, history>>

patchService(i, fGet, fPatch) ==
    LET r == patchServiceDo(instances[i], services, fGet, fPatch)
    IN /\ Running
       /\ instances' = [instances EXCEPT ![i] = r.inst]
       /\ services' = r.table
       /\ last' = Call("patchService", i, r.err, r.calls)
       /\ UNCHANGED <<arrays, maps, statefulSets, claims, nextUuid, history>>

\* destroyService as it would be if it returned the client's error
destroyServicePropagating(i, fail) ==
    LET name == instances[i].k8sName
        del == K8sDeleteService(services, name, fail)
    IN /\ Running
       /\ services' = del.table
       /\ last' = Call("destroyService", i,
                       IF del.err # Nil THEN "error deleting service" ELSE Nil,
                       <<Request("DeleteService", name, fail, del.err = Nil, <<>>)>>)
       /\ UNCHANGED <<instances, arrays, maps, statefulSets, claims, nextUuid, history>>

\* destroyService: the client's result is dropped
destroyService(i, fail) ==
    LET name == instances[i].k8sName
        del == K8sDeleteService(services, name, fail)
    IN /\ Running
       /\ services' = del.table
       /\ last' = Call("destroyService", i, Nil,
                       <<Request("DeleteService", name, fail, del.err = Nil, <<>>)>>)
       /\ UNCHANGED <<instances, arrays, maps, statefulSets, claims, nextUuid, history>>

--------------------------------------------------------------------------
\* cloneWithSuffix: a new Instance whose fields are assigned from the
\* receiver's; serviceAccountName is not assigned and keeps its zero value.
cloneWithSuffixDo(inst, suffix) ==
    [name |-> inst.name \o suffix,
     k8sName |-> inst.k8sName \o suffix,
     imageName |-> inst.imageName,
     state |-> inst.state,
     instanceType |-> inst.instanceType,
     kubernetesService |-> inst.kubernetesService,
     builderFactory |-> inst.builderFactory,
     kubernetesStatefulSet |-> inst.kubernetesStatefulSet,
     portsTCP |-> inst.portsTCP,
     portsUDP |-> inst.portsUDP,
     command |-> inst.command,
     args |-> inst.args,
     env |-> inst.env,
     volumes |-> inst.volumes,
     memoryRequest |-> inst.memoryRequest,
     memoryLimit |-> inst.memoryLimit,
     cpuRequest |-> inst.cpuRequest,
     serviceAccountName |-> ""]

\* cloneWithSuffix while fewer than limit instances are allocated
cloneWithSuffixUpTo(i, suffix, limit) ==
    /\ Running
    /\ Len(instances) < limit
    /\ instances' = Append(instances, cloneWithSuffixDo(instances[i], suffix))
    /\ history' = Append(history, [cloneOf |-> i, image |-> <<>>])
    /\ last' = [Call("cloneWithSuffix", i, Nil, <<>>) EXCEPT !.made = Len(instances) + 1]
    /\ UNCHANGED <<arrays, maps, services, statefulSets, claims, nextUuid>>

cloneWithSuffix(i, suffix) == cloneWithSuffixUpTo(i, suffix, MaxInstances)

--------------------------------------------------------------------------
\* Configuration calls that write the shared storage (instance.go).

\* an assignment of i.serviceAccountName, the field deployPod reads
setServiceAccountName(i, account) ==
    /\ Running
    /\ instances[i].serviceAccountName # account
    /\ instances' = [instances EXCEPT ![i].serviceAccountName = account]
    /\ last' = Call("setServiceAccountName", i, Nil, <<>>)
    /\ UNCHANGED <<arrays, maps, services, statefulSets, claims, nextUuid, history>>

\* SetEnvironmentVariable(key, value): i.env[key] = value
SetEnvironmentVariable(i, key, value) ==
    LET m == instances[i].env
        old == MapOf(m)
    IN /\ Running
       /\ maps' = [maps EXCEPT ![m] = [k \in DOMAIN old \cup {key} |->
                                          IF k = key THEN value ELSE old[k]]]
       /\ last' = Call("SetEnvironmentVariable", i, Nil, <<>>)
       /\ UNCHANGED <<instances, arrays, services, statefulSets, claims, nextUuid, history>>

\* AddVolume(path, size, owner): i.volumes = append(i.volumes, volume)
AddVolume(i, size) ==
    LET inst == instances[i]
        app == GoAppend(inst.volumes, [path |-> "/data", size |-> size, owner |-> 0], NoVolume)
    IN /\ Running
       /\ inst.volumes.len < MaxVolumes
       /\ instances' = [instances EXCEPT ![i].volumes = app.slice]
       /\ arrays' = app.arrays
       /\ last' = Call("AddVolume", i, Nil, <<>>)
       /\ UNCHANGED <<maps, services, statefulSets, claims, nextUuid, history>>

\* SetImage(image): i.imageName = image
SetImage(i, image) ==
    /\ Running
    /\ instances' = [instances EXCEPT ![i].imageName = image]
    /\ last' = Call("SetImage", i, Nil, <<>>)
    /\ UNCHANGED <<arrays, maps, services, statefulSets, claims, nextUuid, history>>

--------------------------------------------------------------------------
\* Image resolution and the StatefulSet helpers.

Resolved(i, image) ==
    IF history[i].image = <<>> THEN [history EXCEPT ![i].image = image] ELSE history

\* a caller of getImageRegistry that only reads the reference
resolveImage(i, uuidErr) ==
    LET r == getImageRegistry(instances[i], uuidErr)
    IN /\ Running
       /\ r.drew => nextUuid < MaxUuids
       /\ nextUuid' = IF r.drew THEN nextUuid + 1 ELSE nextUuid
       /\ history' = IF r.err = Nil THEN Resolved(i, r.image) ELSE history
       /\ last' = [Call("getImageRegistry", i, r.err, <<>>) EXCEPT !.image = r.image]
       /\ UNCHANGED <<instances, arrays, maps, services, statefulSets, claims>>

\* deployPod on receiver inst
deployPodDo(inst, uuidErr, fail) ==
    LET labels == getLabels(inst)
        img == getImageRegistry(inst, uuidErr)
        podConfig == [name |-> inst.k8sName, labels |-> labels, image |-> img.image,
                      command |-> inst.command, args |-> inst.args,
                      env |-> MapOf(inst.env), volumes |-> Elems(inst.volumes),
                      memoryRequest |-> inst.memoryRequest,
                      memoryLimit |-> inst.memoryLimit,
                      cpuRequest |-> inst.cpuRequest,
                      serviceAccountName |-> inst.serviceAccountName]
        statefulSetConfig == [name |-> inst.k8sName, labels |-> labels, replicas |-> 1,
                              podConfig |-> podConfig]
        dep == K8sDeployStatefulSet(statefulSets, statefulSetConfig, TRUE, fail)
        req == Request("DeployStatefulSet", inst.k8sName, fail, dep.err = Nil,
                       statefulSetConfig)
    IN IF img.err # Nil
       THEN [inst |-> inst, table |-> statefulSets, err |-> "failed to get image name",
             calls |-> <<>>, image |-> <<>>, drew |-> FALSE]
       ELSE IF dep.err # Nil
       THEN [inst |-> inst, table |-> dep.table, err |-> "failed to deploy pod",
             calls |-> <<req>>, image |-> img.image, drew |-> img.drew]
       ELSE [inst |-> [inst EXCEPT !.kubernetesStatefulSet = dep.sts],
             table |-> dep.table, err |-> Nil, calls |-> <<req>>,
             image |-> img.image, drew |-> img.drew]

deployPod(i, uuidErr, fail) ==
    LET r == deployPodDo(instances[i], uuidErr, fail)
    IN /\ Running
       /\ r.drew => nextUuid < MaxUuids
       /\ instances' = [instances EXCEPT ![i] = r.inst]
       /\ statefulSets' = r.table
       /\ nextUuid' = IF r.drew THEN nextUuid + 1 ELSE nextUuid
       /\ history' = IF r.image # <<>> THEN Resolved(i, r.image) ELSE history
       /\ last' = [Call("deployPod", i, r.err, r.calls) EXCEPT !.image = r.image]
       /\ UNCHANGED <<arrays, maps, services, claims>>

\* destroyPod as it would be if it dropped the client's error
destroyPodSuppressing(i, fail) ==
    LET name == instances[i].k8sName
        grace == 0
        del == K8sDeleteStatefulSetWithGracePeriod(statefulSets, name, grace, fail)
    IN /\ Running
       /\ statefulSets' = del.table
       /\ last' = Call("destroyPod", i, Nil,
                       <<Request("DeleteStatefulSetWithGracePeriod", name, fail,
                                 del.err = Nil, [grace |-> grace])>>)
       /\ UNCHANGED <<instances, arrays, maps, services, claims, nextUuid, history>>

destroyPod(i, fail) ==
    LET name == instances[i].k8sName
        grace == 0
        del == K8sDeleteStatefulSetWithGracePeriod(statefulSets, name, grace, fail)
    IN /\ Running
       /\ statefulSets' = del.table
       /\ last' = Call("destroyPod", i,
                       IF del.err # Nil THEN "failed to delete pod" ELSE Nil,
                       <<Request("DeleteStatefulSetWithGracePeriod", name, fail, del.err = Nil,
                                 [grace |-> grace])>>)
       /\ UNCHANGED <<instances, arrays, maps, services, claims, nextUuid, history>>

--------------------------------------------------------------------------
\* Volume helpers.

\* resource.ParseQuantity, in units of 1Mi; -1 stands for a string it rejects
ParseQuantity(str) ==
    CASE str = "1Gi" -> 1 * 1024
      [] str = "2Gi" -> 2 * 1024
      [] str = "1024Mi" -> 1024
      [] OTHER -> -1

\* the size as it would be if only the newest declaration counted
SumSizesNewestOnly(volumes) ==
    IF volumes = <<>> THEN 0 ELSE ParseQuantity(volumes[Len(volumes)].size)

\* the loop of deployVolume: size.Add(resource.MustParse(volume.Size))
RECURSIVE SumSizes(_)
SumSizes(volumes) ==
    IF volumes = <<>> THEN 0
    ELSE ParseQuantity(Head(volumes).size) + SumSizes(Tail(volumes))

\* resource.MustParse panics on a string ParseQuantity rejects
MustParsePanics(volumes) == \E k \in 1..Len(volumes) : ParseQuantity(volumes[k].size) < 0

deployVolume(i, fail) ==
    LET inst == instances[i]
        volumes == Elems(inst.volumes)
        size == SumSizes(volumes)
        labels == getLabels(inst)
    IN /\ Running
       /\ IF MustParsePanics(volumes)
          THEN /\ last' = Call("deployVolume", i, "panic", <<>>)
               /\ UNCHANGED claims
          ELSE /\ claims' = K8sDeployPersistentVolumeClaim(claims, inst.k8sName, labels,
                                                            size, fail)
               /\ last' = Call("deployVolume", i, Nil,
                               <<Request("DeployPersistentVolumeClaim", inst.k8sName, fail,
                                         ~fail /\ inst.k8sName \notin Present(claims),
                                         [labels |-> labels, size |-> size])>>)
       /\ UNCHANGED <<instances, arrays, maps, services, statefulSets, nextUuid, history>>

destroyVolume(i, fail) ==
    LET name == instances[i].k8sName
    IN /\ Running
       /\ claims' = K8sDeletePersistentVolumeClaim(claims, name, fail)
       /\ last' = Call("destroyVolume", i, Nil,
                       <<Request("DeletePersistentVolumeClaim", name, fail, ~fail, <<>>)>>)
       /\ UNCHANGED <<instances, arrays, maps, services, statefulSets, nextUuid, history>>

---------------------------------------------------------------------------
\* File staging.  Paths and owner strings are sequences of characters.

PathInputs == {<<>>, <<"/", "s">>, <<"/", "d">>}
ChownInputs == {<<>>, <<"u">>, <<":">>, <<"u", ":", "g">>, <<"u", ":">>,
                <<"u", ":", "g", ":", "h">>, <<":", ":">>}

\* strings.Contains(str, sep) for a one-character sep
Contains(str, sep) == \E k \in 1..Len(str) : str[k] = sep

\* strings.Split(str, sep) for a one-character sep: the pieces between the
\* separators, one more than there are separators
RECURSIVE Split(_, _)
Split(str, sep) ==
    IF ~Contains(str, sep) THEN <<str>>
    ELSE LET k == CHOOSE k \in 1..Len(str) :
                      str[k] = sep /\ \A j \in 1..(k - 1) : str[j] # sep
         IN <<SubSeq(str, 1, k - 1)>> \o Split(SubSeq(str, k + 1, Len(str)), sep)

\* the validation without the count of the pieces
validateFileArgsAnyColons(src, dest, chown) ==
    IF src = <<>> THEN "src must be set"
    ELSE IF dest = <<>> THEN "dest must be set"
    ELSE IF chown = <<>> THEN "chown must be set"
    ELSE IF ~Contains(chown, ":") THEN "chown must be in format 'user:group'"
    ELSE Nil

validateFileArgs(src, dest, chown) ==
    IF src = <<>> THEN "src must be set"
    ELSE IF dest = <<>> THEN "dest must be set"
    ELSE IF chown = <<>> THEN "chown must be set"
    ELSE IF ~Contains(chown, ":") \/ Len(Split(chown, ":")) # 2
         THEN "chown must be in format 'user:group'"
    ELSE Nil

\* addFileToBuilder: one AddToBuilder(dest, dest, chown) on the builder, whose
\* failure is wrapped
addFileToBuilder(src, dest, chown, fail) ==
    [calls |-> <<Request("AddToBuilder", <<>>, fail, ~fail, <<dest, dest, chown>>)>>,
     err |-> IF fail THEN "error adding file" ELSE Nil]

\* stageFile: validateFileArgs, then addFileToBuilder if the arguments are valid
stageFile(i, src, dest, chown, fail) ==
    LET invalid == validateFileArgs(src, dest, chown)
        added == addFileToBuilder(src, dest, chown, fail)
    IN /\ Running
       /\ last' = [Call("stageFile", i, IF invalid # Nil THEN invalid ELSE added.err,
                        IF invalid # Nil THEN <<>> ELSE added.calls)
                      EXCEPT !.arg = <<src, dest, chown>>]
       /\ UNCHANGED <<instances, arrays, maps, services, statefulSets, claims,
                      nextUuid, history>>

--------------------------------------------------------------------------
Init ==
    /\ instances = <<>>
    /\ arrays = <<>>
    /\ maps = <<>>
    /\ services = EmptyTable
    /\ statefulSets = EmptyTable
    /\ claims = EmptyTable
    /\ nextUuid = 0
    /\ history = <<>>
    /\ last = NoCall

\* the ports validatePort is called with: every port in range and PortMargin
\* integers on either side
PortRange == (1 - PortMargin)..(65535 + PortMargin)

\* a caller about to pass a port of PortRange to validatePort
InitPort ==
    /\ instances = <<>>
    /\ arrays = <<>>
    /\ maps = <<>>
    /\ services = EmptyTable
    /\ statefulSets = EmptyTable
    /\ claims = EmptyTable
    /\ nextUuid = 0
    /\ history = <<>>
    /\ \E port \in PortRange : last = [NoCall EXCEPT !.arg = port]

\* the call validatePort(port)
callValidatePort(port) ==
    /\ last.op = "none"
    /\ last' = [Call("validatePort", 0, validatePort(port), <<>>) EXCEPT !.arg = port]
    /\ UNCHANGED <<instances, arrays, maps, services, statefulSets, claims,
                   nextUuid, history>>

NextPort == callValidatePort(last.arg)

SpecPort == InitPort /\ [][NextPort]_vars

\* Every call, with every input.
Next ==
    \/ \E name \in Names, uuidErr \in BOOLEAN : NewInstance(name, uuidErr)
    \/ \E i \in Insts, port \in PortInputs : AddPortTCP(i, port)
    \/ \E i \in Insts, port \in PortInputs : AddPortUDP(i, port)
    \/ \E i \in Insts, key \in EnvKeys, value \in EnvValues :
          SetEnvironmentVariable(i, key, value)
    \/ \E i \in Insts, size \in SizeInputs : AddVolume(i, size)
    \/ \E i \in Insts, image \in ImageInputs : SetImage(i, image)
    \/ \E i \in Insts, suffix \in Suffixes : cloneWithSuffix(i, suffix)
    \/ \E i \in Insts, f \in ServiceFaults : deployService(i, f)
    \/ \E i \in Insts, fGet \in BOOLEAN, fPatch \in BOOLEAN : patchService(i, fGet, fPatch)
    \/ \E i \in Insts, fail \in BOOLEAN : destroyService(i, fail)
    \/ \E i \in Insts, uuidErr \in BOOLEAN : resolveImage(i, uuidErr)
    \/ \E i \in Insts, uuidErr \in BOOLEAN, fail \in BOOLEAN : deployPod(i, uuidErr, fail)
    \/ \E i \in Insts, fail \in BOOLEAN : destroyPod(i, fail)
    \/ \E i \in Insts, fail \in BOOLEAN : deployVolume(i, fail)
    \/ \E i \in Insts, fail \in BOOLEAN : destroyVolume(i, fail)

Spec == Init /\ [][Next]_vars

\* The Service helpers among port registration and cloning.
NextService ==
    \/ \E name \in Names, uuidErr \in BOOLEAN : NewInstance(name, uuidErr)
    \/ \E i \in Insts, port \in PortInputs : AddPortTCP(i, port)
    \/ \E i \in Insts, suffix \in Suffixes : cloneWithSuffix(i, suffix)
    \/ \E i \in Insts, f \in ServiceFaults : deployService(i, f)
    \/ \E i \in Insts, fGet \in BOOLEAN, fPatch \in BOOLEAN : patchService(i, fGet, fPatch)
    \/ \E i \in Insts, fail \in BOOLEAN : destroyService(i, fail)

SpecService == Init /\ [][NextService]_vars

NoFaults == [get |-> FALSE, get2 |-> FALSE, patch |-> FALSE, create |-> FALSE]

\* Cloning among configuration calls and deployments.
NextClone ==
    \/ \E name \in Names : NewInstance(name, FALSE)
    \/ \E i \in Insts, port \in PortInputs : AddPortTCP(i, port)
    \/ \E i \in Insts, key \in EnvKeys, value \in EnvValues :
          SetEnvironmentVariable(i, key, value)
    \/ \E i \in Insts, suffix \in Suffixes : cloneWithSuffix(i, suffix)
    \/ \E i \in Insts : deployService(i, NoFaults)
    \/ \E i \in Insts : deployPod(i, FALSE, FALSE)

SpecClone == Init /\ [][NextClone]_vars

\* The StatefulSet helpers and image resolution.
NextPod ==
    \/ \E name \in Names : NewInstance(name, FALSE)
    \/ \E i \in Insts, image \in ImageInputs : SetImage(i, image)
    \/ \E i \in Insts, suffix \in Suffixes : cloneWithSuffix(i, suffix)
    \/ \E i \in Insts, uuidErr \in BOOLEAN : resolveImage(i, uuidErr)
    \/ \E i \in Insts, uuidErr \in BOOLEAN, fail \in BOOLEAN : deployPod(i, uuidErr, fail)
    \/ \E i \in Insts, fail \in BOOLEAN : destroyPod(i, fail)

SpecPod == Init /\ [][NextPod]_vars

\* The PersistentVolumeClaim helpers.
NextVolume ==
    \/ \E name \in Names : NewInstance(name, FALSE)
    \/ \E i \in Insts, size \in SizeInputs : AddVolume(i, size)
    \/ \E i \in Insts, suffix \in Suffixes : cloneWithSuffix(i, suffix)
    \/ \E i \in Insts, fail \in BOOLEAN : deployVolume(i, fail)
    \/ \E i \in Insts, fail \in BOOLEAN : destroyVolume(i, fail)

SpecVolume == Init /\ [][NextVolume]_vars

\* Teardown of Services and claims.
NextTeardown ==
    \/ \E name \in Names : NewInstance(name, FALSE)
    \/ \E i \in Insts, suffix \in Suffixes : cloneWithSuffix(i, suffix)
    \/ \E i \in Insts : deployService(i, NoFaults)
    \/ \E i \in Insts, fail \in BOOLEAN : destroyService(i, fail)
    \/ \E i \in Insts : deployVolume(i, FALSE)
    \/ \E i \in Insts, fail \in BOOLEAN : destroyVolume(i, fail)

SpecTeardown == Init /\ [][NextTeardown]_vars

\* patchService on Services that exist, never existed or were destroyed.
NextPatch ==
    \/ \E name \in Names : NewInstance(name, FALSE)
    \/ \E i \in Insts, suffix \in Suffixes : cloneWithSuffix(i, suffix)
    \/ \E i \in Insts : deployService(i, NoFaults)
    \/ \E i \in Insts, fGet \in BOOLEAN, fPatch \in BOOLEAN : patchService(i, fGet, fPatch)
    \/ \E i \in Insts : destroyService(i, FALSE)

SpecPatch == Init /\ [][NextPatch]_vars

\* Services and StatefulSets of an original and two clones: one more instance
\* than the other specifications allocate, the third always a clone.
NextSelector ==
    \/ \E name \in Names : NewInstance(name, FALSE)
    \/ \E i \in Insts, suffix \in Suffixes : cloneWithSuffixUpTo(i, suffix, MaxInstances + 1)
    \/ \E i \in Insts : deployService(i, NoFaults)
    \/ \E i \in Insts : patchService(i, FALSE, FALSE)
    \/ \E i \in Insts : deployPod(i, FALSE, FALSE)

SpecSelector == Init /\ [][NextSelector]_vars

\* deployVolume and destroyVolume over growing volume declarations, with one
\* instance fewer than the other specifications allocate.
NextVolumeSum ==
    \/ \E name \in Names, uuidErr \in BOOLEAN : NewInstanceUpTo(name, uuidErr, MaxInstances - 1)
    \/ \E i \in Insts, size \in {"1Gi", "2Gi"} : AddVolume(i, size)
    \/ \E i \in Insts : readLabels(i)
    \/ \E i \in Insts, fail \in BOOLEAN : deployVolume(i, fail)
    \/ \E i \in Insts, fail \in BOOLEAN : destroyVolume(i, fail)

SpecVolumeSum == Init /\ [][NextVolumeSum]_vars

\* File staging on the instances.
NextStage ==
    \/ \E name \in Names : NewInstance(name, FALSE)
    \/ \E i \in Insts, src \in PathInputs, dest \in PathInputs, chown \in ChownInputs,
          fail \in BOOLEAN : stageFile(i, src, dest, chown, fail)

SpecStage == Init /\ [][NextStage]_vars

\* Deployment and teardown of the Service and the StatefulSet of an instance.
NextHandles ==
    \/ \E name \in Names : NewInstance(name, FALSE)
    \/ \E i \in Insts : deployService(i, NoFaults)
    \/ \E i \in Insts, fail \in BOOLEAN : destroyService(i, fail)
    \/ \E i \in Insts : deployPod(i, FALSE, FALSE)
    \/ \E i \in Insts, fail \in BOOLEAN : destroyPod(i, fail)

SpecHandles == Init /\ [][NextHandles]_vars

\* Cloning of configured instances and the deployment of the clones.
NextCloneState ==
    \/ \E name \in Names : NewInstance(name, FALSE)
    \/ \E i \in Insts, account \in AccountInputs : setServiceAccountName(i, account)
    \/ \E i \in Insts, port \in PortInputs : AddPortTCP(i, port)
    \/ \E i \in Insts, image \in ImageInputs : SetImage(i, image)
    \/ \E i \in Insts, suffix \in Suffixes : cloneWithSuffix(i, suffix)
    \/ \E i \in Insts : deployPod(i, FALSE, FALSE)

SpecCloneState == Init /\ [][NextCloneState]_vars

\* The three deploy operations, with and without faults of the client.
NextDeploy ==
    \/ \E name \in Names : NewInstance(name, FALSE)
    \/ \E i \in Insts, f \in {NoFaults, [NoFaults EXCEPT !.get = TRUE]} : deployService(i, f)
    \/ \E i \in Insts, fail \in BOOLEAN : deployPod(i, FALSE, fail)
    \/ \E i \in Insts, fail \in BOOLEAN : deployVolume(i, fail)

SpecDeploy == Init /\ [][NextDeploy]_vars

\* Teardown of StatefulSets.
NextDestroyPod ==
    \/ \E name \in Names : NewInstance(name, FALSE)
    \/ \E i \in Insts, suffix \in Suffixes : cloneWithSuffix(i, suffix)
    \/ \E i \in Insts, fail \in BOOLEAN : deployPod(i, FALSE, fail)
    \/ \E i \in Insts, fail \in BOOLEAN : destroyPod(i, fail)

SpecDestroyPod == Init /\ [][NextDestroyPod]_vars

--------------------------------------------------------------------------
\* Vocabulary of the properties.

NoClientFault(call) == \A k \in 1..Len(call.calls) : ~call.calls[k].fault

Issued(call, what) == \E k \in 1..Len(call.calls) : call.calls[k].call = what

K8sNameOf(i) == instances[i].k8sName

\* the sequence and mapping fields of instance i as a reader of i sees them
Declared(i) ==
    [portsTCP |-> Elems(instances[i].portsTCP),
     portsUDP |-> Elems(instances[i].portsUDP),
     command |-> instances[i].command,
     args |-> instances[i].args,
     env |-> MapOf(instances[i].env),
     volumes |-> Elems(instances[i].volumes)]

Mutators == {"AddPortTCP", "AddPortUDP", "SetEnvironmentVariable", "AddVolume"}

UniqueNames == \A i, j \in Insts : i # j => K8sNameOf(i) # K8sNameOf(j)

--------------------------------------------------------------------------
\* C1: deployService called twice in succession on one instance, first with no
\* Service of its name in the cluster and then with the Service the first
\* call created, returns no error on either call and leaves the Service's
\* labels, selector and ports after the second call as after the first.
C1_DeployServiceTwice ==
    [][(/\ last.op = "deployService" /\ last.err = Nil /\ ~last.found
        /\ last'.op = "deployService" /\ last'.inst = last.inst
        /\ NoClientFault(last'))
       => (/\ last'.err = Nil
           /\ K8sNameOf(last.inst) \in Present(services')
           /\ services'[K8sNameOf(last.inst)] = services[K8sNameOf(last.inst)])]_vars

\* C2: a deployService call whose lookup found the Service issues no create
\* request; a create request is issued only when the lookup found none.
C2_NoCreateWhenFound ==
    last.op = "deployService" => (Issued(last, "DeployService") => ~last.found)

\* C3: after a clone, a mutation of a sequence or mapping field of the clone
\* leaves the original's fields unchanged, and a mutation of the original
\* leaves the clone's fields unchanged.
C3_CloneIsolation ==
    [][\A i \in Insts :
         (/\ last'.op \in Mutators
          /\ last'.inst \in Insts /\ last'.inst # i
          /\ (history[i].cloneOf = last'.inst \/ history[last'.inst].cloneOf = i))
         => Declared(i)' = Declared(i)]_vars

\* C4: the instance cloneWithSuffix returns has no Service handle and no
\* StatefulSet handle, whatever the handles of the original.
C4_CloneHandlesAbsent ==
    last.op = "cloneWithSuffix" =>
        /\ instances[last.made].kubernetesService = NoService
        /\ instances[last.made].kubernetesStatefulSet = NoStatefulSet

\* C5: no two distinct instances have the same cluster name, and no operation
\* changes the cluster name of an instance.
C5_NamesUniqueAndImmutable ==
    [][/\ UniqueNames'
       /\ \A i \in Insts : instances'[i].k8sName = instances[i].k8sName]_vars

\* C6: for an instance whose imageName is empty, every resolution of the image
\* (by deployPod or by another caller of getImageRegistry) yields the reference
\* the first resolution yielded.
C6_ImageResolvedOnce ==
    (/\ last.op \in {"deployPod", "getImageRegistry"}
     /\ last.image # <<>>
     /\ instances[last.inst].imageName = <<>>)
    => last.image = history[last.inst].image

\* C7: deployVolume returns an error whenever a declared size is no valid
\* quantity or the client's claim creation fails; it does not return success
\* (and does not panic) in those cases.
C7_DeployVolumeReportsFailure ==
    (/\ last.op = "deployVolume"
     /\ \/ MustParsePanics(Elems(instances[last.inst].volumes))
        \/ \E k \in 1..Len(last.calls) : last.calls[k].fault)
    => last.err \notin {Nil, "panic"}

\* C8: after a deployPod that returns success the instance's StatefulSet
\* handle is the created workload, the instance's state is "Started", and the
\* workload has one replica and the instance's cluster name.
C8_DeployPodStarted ==
    (last.op = "deployPod" /\ last.err = Nil) =>
        /\ K8sNameOf(last.inst) \in Present(statefulSets)
        /\ instances[last.inst].kubernetesStatefulSet = statefulSets[K8sNameOf(last.inst)]
        /\ statefulSets[K8sNameOf(last.inst)].replicas = 1
        /\ statefulSets[K8sNameOf(last.inst)].name = K8sNameOf(last.inst)
        /\ instances[last.inst].state = "Started"

C11_PatchLookupFailure ==
    (/\ last.op = "patchService"
     /\ Len(last.calls) >= 1
     /\ last.calls[1].call = "GetService"
     /\ ~last.calls[1].ok)
    => /\ last.err = "error getting service"
       /\ last.calls[1].name = K8sNameOf(last.inst)
       /\ ~Issued(last, "PatchService")
       /\ instances[last.inst].kubernetesService = NoService

\* a patchService without a handle whose lookup found no Service (the client
\* itself did not fail) and that returned the lookup error
C11_Witness ==
    /\ last.op = "patchService"
    /\ Len(last.calls) = 1
    /\ last.calls[1].call = "GetService"
    /\ ~last.calls[1].ok /\ ~last.calls[1].fault
    /\ K8sNameOf(last.inst) \notin Present(services)
    /\ last.err = "error getting service"

\* C12: a successful patchService leaves the Service of the instance's cluster
\* name with labels and selector equal to the instance's own labels and with
\* the instance's current ports, whatever the cached handle carries.
C12_PatchAppliesOwnLabels ==
    (last.op = "patchService" /\ last.err = Nil) =>
        /\ K8sNameOf(last.inst) \in Present(services)
        /\ services[K8sNameOf(last.inst)].labels = getLabels(instances[last.inst])
        /\ services[K8sNameOf(last.inst)].selector = getLabels(instances[last.inst])
        /\ services[K8sNameOf(last.inst)].portsTCP = Elems(instances[last.inst].portsTCP)
        /\ services[K8sNameOf(last.inst)].portsUDP = Elems(instances[last.inst].portsUDP)

\* the declared sizes of instance i, as strings
SizesOf(i) == [k \in 1..instances[i].volumes.len |-> Elems(instances[i].volumes)[k].size]

\* how many declared volumes of instance i have one of the sizes in strs
CountSizes(i, strs) == Cardinality({k \in 1..instances[i].volumes.len : SizesOf(i)[k] \in strs})

\* C13: a deployVolume call requests exactly one claim, keyed by the cluster
\* name and labelled as the instance, whose size is the sum of all sizes
\* declared at the time of the call (in Mi: 1024 for each 1Gi or 1024Mi, 2048
\* for each 2Gi); with <<1Gi>> it is 1Gi and with <<1Gi, 2Gi>> it is 3Gi.
C13_ClaimSizeIsSum ==
    (last.op = "deployVolume" /\ last.err = Nil) =>
        /\ Len(last.calls) = 1
        /\ last.calls[1].call = "DeployPersistentVolumeClaim"
        /\ last.calls[1].name = K8sNameOf(last.inst)
        /\ last.calls[1].arg.labels = getLabels(instances[last.inst])
        /\ last.calls[1].arg.size =
              1024 * CountSizes(last.inst, {"1Gi", "1024Mi"})
              + 2048 * CountSizes(last.inst, {"2Gi"})
        /\ SizesOf(last.inst) = <<"1Gi">> => last.calls[1].arg.size = 1024
        /\ SizesOf(last.inst) = <<"1Gi", "2Gi">> => last.calls[1].arg.size = 3 * 1024

\* a second deployVolume, after a 2Gi volume was added to a 1Gi one whose
\* claim is in the cluster with 1Gi: the request is for 3Gi
C13_Witness ==
    /\ last.op = "deployVolume"
    /\ SizesOf(last.inst) = <<"1Gi", "2Gi">>
    /\ K8sNameOf(last.inst) \in Present(claims)
    /\ claims[K8sNameOf(last.inst)].size = 1024
    /\ last.calls[1].arg.size = 3 * 1024

\* the errors of validateFileArgs
InvalidFileArgsErrors ==
    {"src must be set", "dest must be set", "chown must be set",
     "chown must be in format 'user:group'"}

\* how many ':' the owner string holds
Colons(chown) == Cardinality({k \in 1..Len(chown) : chown[k] = ":"})

\* C14: stageFile calls the builder if and only if src, dest and owner are
\* non-empty and owner holds exactly one ':'; the call is then
\* AddToBuilder(dest, dest, owner), and otherwise stageFile fails with one of
\* the invalid-argument errors and the builder is not called.
C14_StageFileValidates ==
    last.op = "stageFile" =>
        LET src == last.arg[1]
            dest == last.arg[2]
            chown == last.arg[3]
            valid == src # <<>> /\ dest # <<>> /\ chown # <<>> /\ Colons(chown) = 1
        IN /\ Issued(last, "AddToBuilder") <=> valid
           /\ valid => /\ Len(last.calls) = 1
                       /\ last.calls[1].arg = <<dest, dest, chown>>
                       /\ last.err = IF last.calls[1].ok THEN Nil ELSE "error adding file"
           /\ ~valid => /\ last.calls = <<>>
                        /\ last.err \in InvalidFileArgsErrors

\* a staged file whose source differs from its destination
C14_Witness ==
    /\ last.op = "stageFile"
    /\ last.arg = << <<"/", "s">>, <<"/", "d">>, <<"u", ":", "g">> >>
    /\ last.err = Nil
    /\ last.calls[1].arg = << <<"/", "d">>, <<"/", "d">>, <<"u", ":", "g">> >>

\* C15: after destroyService returns the instance's Service handle is absent,
\* and after a destroyPod that returned no error its StatefulSet handle is
\* absent.
C15_HandlesClearedOnTeardown ==
    /\ last.op = "destroyService" =>
           instances[last.inst].kubernetesService = NoService
    /\ (last.op = "destroyPod" /\ last.err = Nil) =>
           instances[last.inst].kubernetesStatefulSet = NoStatefulSet

\* the declared-state fields of instance i other than its names, slices and
\* maps read through to their contents
DeclaredState(i) ==
    [portsTCP |-> Elems(instances[i].portsTCP),
     portsUDP |-> Elems(instances[i].portsUDP),
     command |-> instances[i].command,
     args |-> instances[i].args,
     env |-> MapOf(instances[i].env),
     volumes |-> Elems(instances[i].volumes),
     memoryRequest |-> instances[i].memoryRequest,
     memoryLimit |-> instances[i].memoryLimit,
     cpuRequest |-> instances[i].cpuRequest,
     serviceAccountName |-> instances[i].serviceAccountName,
     imageName |-> instances[i].imageName,
     state |-> instances[i].state,
     instanceType |-> instances[i].instanceType]

\* the pod specification deployPod builds for instance i, without its name,
\* labels and image
PodSpecOf(i) ==
    LET config == deployPodDo(instances[i], FALSE, FALSE).calls[1].arg.podConfig
    IN [command |-> config.command, args |-> config.args, env |-> config.env,
        volumes |-> config.volumes, memoryRequest |-> config.memoryRequest,
        memoryLimit |-> config.memoryLimit, cpuRequest |-> config.cpuRequest,
        serviceAccountName |-> config.serviceAccountName]

\* C16: right after cloneWithSuffix the clone's name and cluster name are the
\* original's with the suffix appended, every other declared-state field of
\* the clone has the original's value, and deployPod would build the same pod
\* specification for both apart from name and labels.
C16_CloneCopiesDeclaredState ==
    last.op = "cloneWithSuffix" =>
        /\ \E suffix \in Suffixes :
              /\ instances[last.made].name = instances[last.inst].name \o suffix
              /\ instances[last.made].k8sName = instances[last.inst].k8sName \o suffix
        /\ DeclaredState(last.made) = DeclaredState(last.inst)
        /\ PodSpecOf(last.made) = PodSpecOf(last.inst)

\* C17: validatePort(p) returns no error for every p with 1 <= p <= 65535 and
\* the out-of-range error for every other integer.
C17_ValidatePortRange ==
    last.op = "validatePort" =>
        /\ last.err = Nil <=> (1 <= last.arg /\ last.arg <= 65535)
        /\ last.err # Nil => last.err = "port number is out of range"

\* port 0 was rejected
C17_Witness ==
    /\ last.op = "validatePort"
    /\ last.arg = 0
    /\ last.err = "port number is out of range"

DeployOps == {"deployService", "deployPod", "deployVolume"}
Creates == {"DeployService", "DeployStatefulSet", "DeployPersistentVolumeClaim"}
Lookups == {"GetService", "GetStatefulSet", "GetPersistentVolumeClaim"}

\* request k of the call was preceded, in the call, by a lookup of the same name
LookedUpBefore(call, k) ==
    \E j \in 1..(k - 1) : /\ call.calls[j].call \in Lookups
                           /\ call.calls[j].name = call.calls[k].name

C19_RequestsAreOwn ==
    (UniqueNames /\ last.inst \in Insts) =>
        \A k \in 1..Len(last.calls) :
            /\ last.calls[k].name = K8sNameOf(last.inst)
            /\ last.calls[k].call \in {"DeployService", "PatchService"} =>
                  /\ last.calls[k].arg.labels = getLabels(instances[last.inst])
                  /\ last.calls[k].arg.selector = getLabels(instances[last.inst])
                  /\ last.calls[k].arg.portsTCP = Elems(instances[last.inst].portsTCP)
                  /\ last.calls[k].arg.portsUDP = Elems(instances[last.inst].portsUDP)

\* C20: whenever the Service and the StatefulSet of one cluster name both
\* exist, the Service's selector equals the StatefulSet's labels.
C20_SelectorMatchesWorkload ==
    \A name \in Present(services) \cap Present(statefulSets) :
        services[name].selector = statefulSets[name].labels

====
